---------------------------- MODULE Spec2Model ----------------------------
(***************************************************************************)
(* Model of load_data_to_db.py: a batch job that reads a wide CSV of       *)
(* hourly sensor readings and loads it into four SQLite tables (Zones,     *)
(* Measurements, HourlyOutdoorReadings, HourlyZoneReadings).               *)
(*                                                                         *)
(* Representation.                                                         *)
(*  - A column or measurement name is the sequence of its '_'-separated    *)
(*    segments: "Z1_temp_diff" is <<"Z1","temp","diff">>.  Joining with    *)
(*    '_' is concatenation, split('_')[0] is the first segment, and two    *)
(*    names are the same string iff the sequences are equal.               *)
(*  - A numeric cell is a record [type, val]: a float, the float NaN, or   *)
(*    Python's None / SQL NULL.  Timestamps are strings.                   *)
(*  - A table is the sequence of its rows in insertion order.  db is the   *)
(*    committed database file (what any other reader sees); tx is what     *)
(*    this process's connection sees (db plus its uncommitted inserts).    *)
(***************************************************************************)
EXTENDS Integers, Sequences, FiniteSets, TLC

\* ---------------------------------------------------------------- bounds
\* Largest number of data rows of the CSV file.
MaxRows == 2
\* Largest number of times the script is started on the same file.
MaxRuns == 2

\* ---------------------------------------------------------------- values
Float(n) == [type |-> "float", val |-> n]
NaN == [type |-> "nan", val |-> 0]
None == [type |-> "none", val |-> 0]

\* pd.isna(value): true of the float NaN (and of None).
IsNa(v) == v.type \in {"nan", "none"}

Range(s) == {s[i] : i \in 1..Len(s)}

\* ----------------------------------------------------- names and catalog
TimestampCol == <<"Timestamp">>

\* outdoor_cols: the columns of HourlyOutdoorReadings, in the order of the
\* INSERT statement's column list.
outdoor_cols ==
  << <<"Timestamp">>, <<"Cooling">>, <<"Heating">>, <<"Air", "temperature">>,
     <<"Relative", "humidity">>, <<"Wind", "speed">>, <<"Rain">>,
     <<"Solar", "radiation">>, <<"Lighting">>, <<"outdoor", "dew", "point">>,
     <<"Outdoor", "Heat", "Index">> >>

\* measurements_to_insert: name -> unit, in dict (insertion) order.
measurements_to_insert ==
  << [name |-> <<"temp">>, unit |-> "C"],
     [name |-> <<"RH">>, unit |-> "%"],
     [name |-> <<"CO2">>, unit |-> "ppm"],
     [name |-> <<"valve", "opening">>, unit |-> "%"],
     [name |-> <<"window", "opening">>, unit |-> "%"],
     [name |-> <<"dew", "point">>, unit |-> "C"],
     [name |-> <<"temp", "diff">>, unit |-> "C"],
     [name |-> <<"RH", "diff">>, unit |-> "%"],
     [name |-> <<"Heat", "Index">>, unit |-> "C"],
     [name |-> <<"CO2", "AQI">>, unit |-> "AQI"],
     [name |-> <<"Condensation", "Risk">>, unit |-> "Risk Level"],
     [name |-> <<"Comfortable", "Humidity">>, unit |-> "Binary (0/1)"],
     [name |-> <<"Overheating", "Risk">>, unit |-> "Risk Level"],
     [name |-> <<"Cooling">>, unit |-> "kW"],
     [name |-> <<"Heating">>, unit |-> "kW"],
     [name |-> <<"Air", "temperature">>, unit |-> "C"],
     [name |-> <<"Relative", "humidity">>, unit |-> "%"],
     [name |-> <<"Wind", "speed">>, unit |-> "m/s"],
     [name |-> <<"Rain">>, unit |-> "mm"],
     [name |-> <<"Solar", "radiation">>, unit |-> "W/m^2"],
     [name |-> <<"Lighting">>, unit |-> "Lux"],
     [name |-> <<"outdoor", "dew", "point">>, unit |-> "C"],
     [name |-> <<"Outdoor", "Heat", "Index">>, unit |-> "C"] >>

\* The measurement names the unpivot loop skips as global.
GlobalMeasurements ==
  { <<"Cooling">>, <<"Heating">>, <<"Air", "temperature">>,
    <<"Relative", "humidity">>, <<"Wind", "speed">>, <<"Rain">>,
    <<"Solar", "radiation">>, <<"Lighting">>, <<"outdoor", "dew", "point">>,
    <<"Outdoor", "Heat", "Index">> }

\* ------------------------------------------------------------ the inputs
\* Zone columns a file may carry besides the outdoor columns.
Z1_temp == <<"Z1", "temp">>
Z1_CO2 == <<"Z1", "CO2">>
Z2_temp == <<"Z2", "temp">>
Z2_CO2 == <<"Z2", "CO2">>
Z3_A_temp == <<"Z3", "A", "temp">>

ZoneColumnInputs == {Z1_temp, Z1_CO2, Z2_temp, Z2_CO2, Z3_A_temp}

\* The shapes of the files tried, each a column set and the way the file
\* writes its timestamps: no zone at all; the usual case; a zone (Z2) with a
\* CO2 column but no temperature column; a zone prefix ("Z3_A") that
\* contains the separator; two zones; a file that lacks an outdoor column; a
\* file that lacks the Timestamp column; timestamps written with a "T";
\* timestamps that are no dates.
FileShapeInputs ==
  { [columns |-> Range(outdoor_cols), style |-> "canonical"],
    [columns |-> Range(outdoor_cols) \cup {Z1_temp, Z1_CO2}, style |-> "canonical"],
    [columns |-> Range(outdoor_cols) \cup {Z1_temp, Z2_CO2}, style |-> "canonical"],
    [columns |-> Range(outdoor_cols) \cup {Z3_A_temp, Z1_CO2}, style |-> "canonical"],
    [columns |-> Range(outdoor_cols) \cup {Z2_temp, Z1_temp, Z2_CO2},
     style |-> "iso_t"],
    [columns |-> (Range(outdoor_cols) \ {<<"Lighting">>}) \cup {Z1_temp},
     style |-> "canonical"],
    [columns |-> (Range(outdoor_cols) \ {TimestampCol}) \cup {Z1_temp},
     style |-> "canonical"],
    [columns |-> Range(outdoor_cols) \cup {Z1_temp, Z1_CO2}, style |-> "iso_t"],
    [columns |-> Range(outdoor_cols) \cup {Z1_temp}, style |-> "unparseable"] }

\* A distinct positive number for every column, so that a value put in the
\* wrong column shows.
ColumnNumber(col) ==
  CASE col = Z1_temp -> 21
    [] col = Z1_CO2 -> 22
    [] col = Z2_temp -> 23
    [] col = Z2_CO2 -> 24
    [] col = Z3_A_temp -> 25
    [] OTHER -> CHOOSE i \in 1..Len(outdoor_cols) : outdoor_cols[i] = col

\* The text of the Timestamp field of a row, as in the file.  style is how
\* the file writes its timestamps; a "num" row carries the first hour, a
\* "gap" row the next one.
RawTimestamp(style, kind) ==
  CASE style = "canonical" /\ kind = "num" -> "2024-01-01 00:00:00"
    [] style = "canonical" /\ kind = "gap" -> "2024-01-01 01:00:00"
    [] style = "iso_t" /\ kind = "num" -> "2024-01-01T00:00:00"
    [] style = "iso_t" /\ kind = "gap" -> "2024-01-01T01:00:00"
    [] OTHER -> "not a date"

\* The kinds of data row tried: every cell a distinct number; or the
\* temperature cells and Rain empty (read as NaN), the CO2 cells and Cooling
\* zero, the other cells distinct numbers.
RowKinds == {"num", "gap"}

CellInput(kind, col) ==
  CASE kind = "gap" /\ col \in {Z1_temp, Z2_temp, Z3_A_temp, <<"Rain">>} -> NaN
    [] kind = "gap" /\ col \in {Z1_CO2, Z2_CO2, <<"Cooling">>} -> Float(0)
    [] OTHER -> Float(ColumnNumber(col))

RowInput(style, kind, cols) ==
  [c \in cols |-> IF c = TimestampCol THEN RawTimestamp(style, kind)
                  ELSE CellInput(kind, c)]

RECURSIVE SeqsUpTo(_, _)
SeqsUpTo(S, n) ==
  IF n = 0 THEN {<<>>}
  ELSE LET shorter == SeqsUpTo(S, n - 1)
       IN shorter \cup {Append(s, x) : s \in {t \in shorter : Len(t) = n - 1}, x \in S}

\* The files tried.  status is what reading the path does: "ok" (a table is
\* parsed), "notfound", "empty" (no columns to parse) or "malformed".
CsvInputs ==
  { [status |-> st, columns |-> {}, rows |-> <<>>] :
      st \in {"notfound", "empty", "malformed"} }
  \cup
  { [status |-> "ok", columns |-> shape.columns,
      rows |-> [i \in 1..Len(ks) |-> RowInput(shape.style, ks[i], shape.columns)]] :
      ks \in SeqsUpTo(RowKinds, MaxRows), shape \in FileShapeInputs }

\* The database files tried: the four tables exist (the schema is created
\* elsewhere) and the fact tables are empty; the reference tables are empty,
\* or already hold zone Z1 and measurement temp under other keys and
\* another unit.
EmptyDb ==
  [Zones |-> <<>>, Measurements |-> <<>>,
   HourlyOutdoorReadings |-> <<>>, HourlyZoneReadings |-> <<>>]

DbInputs ==
  { EmptyDb,
    [EmptyDb EXCEPT
       !.Zones = << [ZoneID |-> 3, ZoneName |-> "Z1"] >>,
       !.Measurements =
          << [MeasurementID |-> 5, MeasurementName |-> <<"temp">>, Unit |-> "F"] >>] }

\* ------------------------------------------------------ the source loader
\* pd.to_datetime on one string: the hour it denotes, or -1 when it does
\* not parse.
ToDatetime(s) ==
  CASE s \in {"2024-01-01 00:00:00", "2024-01-01T00:00:00"} -> 0
    [] s \in {"2024-01-01 01:00:00", "2024-01-01T01:00:00"} -> 1
    [] OTHER -> -1

\* .dt.strftime('%Y-%m-%d %H:%M:%S') of an hour of 2024-01-01.
Strftime(h) ==
  CASE h = 0 -> "2024-01-01 00:00:00"
    [] h = 1 -> "2024-01-01 01:00:00"

\* Whether the try block of the load raises: read_csv fails, there is no
\* Timestamp column (KeyError), or a timestamp does not parse.
LoadRaises(file) ==
  \/ file.status # "ok"
  \/ TimestampCol \notin file.columns
  \/ \E i \in 1..Len(file.rows) : ToDatetime(file.rows[i][TimestampCol]) = -1

\* df before the load (Python's None): no columns, no rows.
NoFrame == [columns |-> {}, rows |-> <<>>]

\* df after the load: the file's table with Timestamp rewritten in the
\* canonical format.
LoadFrame(file) ==
  [columns |-> file.columns,
   rows |-> [i \in 1..Len(file.rows) |->
               [file.rows[i] EXCEPT ![TimestampCol] = Strftime(ToDatetime(@))]]]

\* ------------------------------------------------- the reference resolver
\* Whether a name segment begins with "temp".
StartsWithTemp(seg) == seg \in {"temp", "temperature"}

\* '_temp' in col: a segment after the first one begins with "temp".
ContainsTemp(col) == \E k \in 2..Len(col) : StartsWithTemp(col[k])

zone_columns(frame) ==
  {col \in frame.columns : ContainsTemp(col) /\ col # <<"Air", "temperature">>}

\* The place of a zone name in Python's string order.
StringRank(name) ==
  CASE name = "Air" -> 1
    [] name = "Z1" -> 2
    [] name = "Z2" -> 3
    [] name = "Z3" -> 4

RECURSIVE Sorted(_)
Sorted(S) ==
  IF S = {} THEN <<>>
  ELSE LET least == CHOOSE x \in S : \A y \in S : StringRank(x) <= StringRank(y)
       IN <<least>> \o Sorted(S \ {least})

\* sorted(list(set(col.split('_')[0] for col in zone_columns)))
ZoneNames(frame) == Sorted({col[1] : col \in zone_columns(frame)})

\* ------------------------------------------------------------ the storage
\* The schema, created outside this script, declares ZoneName and
\* MeasurementName unique: an insert of a name a row already holds
\* conflicts.
ZoneNameConflict(table, name) ==
  \E i \in 1..Len(table) : table[i].ZoneName = name

MeasurementNameConflict(table, name) ==
  \E i \in 1..Len(table) : table[i].MeasurementName = name

\* The key SQLite gives a new row: one more than the largest in the table.
NextKey(keys) == IF keys = {} THEN 1 ELSE 1 + CHOOSE k \in keys : \A j \in keys : j <= k

\* INSERT OR REPLACE: on a conflict the old row is deleted and the new
\* one inserted under a new key.
InsertOrReplaceZone(table, name) ==
  LET kept == SelectSeq(table, LAMBDA r : r.ZoneName # name)
  IN Append(kept, [ZoneID |-> NextKey({table[i].ZoneID : i \in 1..Len(table)}),
                   ZoneName |-> name])

\* INSERT OR IGNORE INTO Zones (ZoneName) VALUES (?)
InsertOrIgnoreZone(table, name) ==
  IF ZoneNameConflict(table, name) THEN table
  ELSE Append(table, [ZoneID |-> NextKey({table[i].ZoneID : i \in 1..Len(table)}),
                      ZoneName |-> name])

\* INSERT OR IGNORE INTO Measurements (MeasurementName, Unit) VALUES (?, ?)
InsertOrIgnoreMeasurement(table, name, unit) ==
  IF MeasurementNameConflict(table, name) THEN table
  ELSE Append(table,
              [MeasurementID |-> NextKey({table[i].MeasurementID : i \in 1..Len(table)}),
               MeasurementName |-> name, Unit |-> unit])

\* for zone_name in zone_names: cursor.execute(INSERT OR IGNORE ...)
RECURSIVE InsertZones(_, _)
InsertZones(table, names) ==
  IF names = <<>> THEN table
  ELSE InsertZones(InsertOrIgnoreZone(table, Head(names)), Tail(names))

\* for name, unit in measurements_to_insert.items(): cursor.execute(...)
RECURSIVE InsertMeasurements(_, _)
InsertMeasurements(table, entries) ==
  IF entries = <<>> THEN table
  ELSE InsertMeasurements(
         InsertOrIgnoreMeasurement(table, Head(entries).name, Head(entries).unit),
         Tail(entries))

\* A map from each name to its place in the result set, counted from 0,
\* instead of its ZoneID.
ZoneIdMapByRowIndex(table) ==
  [n \in {table[i].ZoneName : i \in 1..Len(table)} |->
     (CHOOSE i \in 1..Len(table) : table[i].ZoneName = n) - 1]

\* {row['ZoneName']: row['ZoneID'] for row in SELECT ZoneID, ZoneName FROM Zones}
\* (a later row of the same name overwrites an earlier one).
ZoneIdMap(table) ==
  [n \in {table[i].ZoneName : i \in 1..Len(table)} |->
     LET last == CHOOSE i \in 1..Len(table) :
                   /\ table[i].ZoneName = n
                   /\ \A j \in 1..Len(table) : table[j].ZoneName = n => j <= i
     IN table[last].ZoneID]

\* The measurement map, as the sequence of its items in the dict's order:
\* the order of the rows of SELECT MeasurementID, MeasurementName FROM
\* Measurements.
MeasurementIdMap(table) ==
  [i \in 1..Len(table) |->
     [name |-> table[i].MeasurementName, id |-> table[i].MeasurementID]]

\* What SQLite stores for a bound numeric parameter: a NaN float is stored
\* as NULL.
SqlBind(v) == IF v.type = "nan" THEN None ELSE v

\* ----------------------------------------------------- the fact transformer
\* The tuples with Cooling and Heating in each other's place.
OutdoorDataSwapped(frame) ==
  [i \in 1..Len(frame.rows) |->
     [j \in 1..Len(outdoor_cols) |->
        frame.rows[i][outdoor_cols[IF j = 2 THEN 3 ELSE IF j = 3 THEN 2 ELSE j]]]]

\* [tuple(row) for row in df[outdoor_cols].values]
OutdoorData(frame) ==
  [i \in 1..Len(frame.rows) |->
     [j \in 1..Len(outdoor_cols) |-> frame.rows[i][outdoor_cols[j]]]]

\* The row as executemany stores it: Timestamp is text, the rest numeric.
BindOutdoorRow(t) == [j \in 1..Len(t) |-> IF j = 1 THEN t[j] ELSE SqlBind(t[j])]

BindZoneRow(t) == [t EXCEPT ![4] = SqlBind(@)]

\* A test of the value's truth: zero becomes None as well.
NormalizeFalsy(value) == IF IsNa(value) \/ value.val = 0 THEN None ELSE value

\* if pd.isna(value): value = None
Normalize(value) == IF IsNa(value) THEN None ELSE value

\* The innermost loop, from the k-th item of measurement_id_map on: the rows
\* appended for one source row and one zone.
RECURSIVE MeasurementLoop(_, _, _, _, _)
MeasurementLoop(frame, row, zone_name, zone_id, items) ==
  IF items = <<>> THEN <<>>
  ELSE LET measurement_name == Head(items).name
           csv_col_name == <<zone_name>> \o measurement_name
           rest == MeasurementLoop(frame, row, zone_name, zone_id, Tail(items))
       IN IF measurement_name \in GlobalMeasurements THEN rest
          ELSE IF csv_col_name \in frame.columns
          THEN << <<row[TimestampCol], zone_id, Head(items).id,
                    Normalize(row[csv_col_name])>> >> \o rest
          ELSE rest

\* The loop over zone_names for one source row; a zone the map lacks is
\* skipped (with a warning).
RECURSIVE ZoneLoop(_, _, _, _, _)
ZoneLoop(frame, row, names, zmap, items) ==
  IF names = <<>> THEN <<>>
  ELSE LET rest == ZoneLoop(frame, row, Tail(names), zmap, items)
       IN IF Head(names) \notin DOMAIN zmap THEN rest
          ELSE MeasurementLoop(frame, row, Head(names), zmap[Head(names)], items)
               \o rest

\* for index, row in df.iterrows(): ... , from row i on.
RECURSIVE RowLoop(_, _, _, _, _)
RowLoop(frame, i, names, zmap, items) ==
  IF i > Len(frame.rows) THEN <<>>
  ELSE ZoneLoop(frame, frame.rows[i], names, zmap, items)
       \o RowLoop(frame, i + 1, names, zmap, items)

\* zone_reading_data when the unpivot loop ends.
ZoneReadingData(frame, names, zmap, items) == RowLoop(frame, 1, names, zmap, items)

\* ------------------------------------------------------------- the state
VARIABLES
  csv,                \* the file at csv_path
  db,                 \* the committed tables of the database file
  run,                \* how many times the script has been started
  pc,                 \* where the running script is
  out,                \* out[r]: what run r has printed, in order
  df,                 \* the DataFrame
  conn,               \* "none", "open" or "closed"
  tx,                 \* the tables as the connection sees them
  zone_names, zone_id_map, measurement_id_map,
  outdoor_data, zone_reading_data,
  cursor_pos          \* rows of the batch the running executemany has inserted

locals ==
  <<zone_names, zone_id_map, measurement_id_map, outdoor_data, zone_reading_data,
    cursor_pos>>

vars == <<csv, db, run, pc, out, df, conn, tx, locals>>

NoMap == [n \in {} |-> 0]

Say(msg) == [out EXCEPT ![run] = Append(@, msg)]

\* The positions at which the script executes a statement on the database.
DbPositions ==
  {"connect", "zones", "commit_zones", "measurements", "commit_measurements",
   "fetch_maps", "exec_outdoor", "commit_outdoor", "exec_zone", "commit_zone"}

Init ==
  /\ csv \in CsvInputs
  /\ db \in DbInputs
  /\ run = 1
  /\ pc = "load"
  /\ out = << <<>> >>
  /\ df = NoFrame
  /\ conn = "none"
  /\ tx = db
  /\ zone_names = <<>>
  /\ zone_id_map = NoMap
  /\ measurement_id_map = <<>>
  /\ outdoor_data = <<>>
  /\ zone_reading_data = <<>>
  /\ cursor_pos = 0

\* ----------------------------------------------------------- the actions
\* A load error that is reported but does not end the process.
LoadCsvNoExit ==
  /\ pc = "load"
  /\ IF LoadRaises(csv)
     THEN /\ out' = Say("csv_error")
          /\ df' = df
     ELSE /\ out' = Say("csv_loaded")
          /\ df' = LoadFrame(csv)
  /\ pc' = "connect"
  /\ UNCHANGED <<csv, db, run, conn, tx, locals>>

\* The first try block: read the file, canonicalize Timestamp; any
\* exception prints and exits.
LoadCsv ==
  /\ pc = "load"
  /\ IF LoadRaises(csv)
     THEN /\ out' = Say("csv_error")
          /\ pc' = "exited"
          /\ df' = df
     ELSE /\ out' = Say("csv_loaded")
          /\ pc' = "connect"
          /\ df' = LoadFrame(csv)
  /\ UNCHANGED <<csv, db, run, conn, tx, locals>>

\* conn = get_db_connection(); cursor = conn.cursor()
Connect ==
  /\ pc = "connect"
  /\ conn' = "open"
  /\ tx' = db
  /\ pc' = "zones"
  /\ UNCHANGED <<csv, db, run, out, df, locals>>

\* Derive zone_names and insert each of them.
PopulateZones ==
  /\ pc = "zones"
  /\ zone_names' = ZoneNames(df)
  /\ tx' = [tx EXCEPT !.Zones = InsertZones(@, ZoneNames(df))]
  /\ pc' = "commit_zones"
  /\ UNCHANGED <<csv, db, run, out, df, conn, zone_id_map, measurement_id_map,
                 outdoor_data, zone_reading_data, cursor_pos>>

CommitZones ==
  /\ pc = "commit_zones"
  /\ db' = tx
  /\ out' = Say("zones_inserted")
  /\ pc' = "measurements"
  /\ UNCHANGED <<csv, run, df, conn, tx, locals>>

PopulateMeasurements ==
  /\ pc = "measurements"
  /\ tx' = [tx EXCEPT !.Measurements = InsertMeasurements(@, measurements_to_insert)]
  /\ pc' = "commit_measurements"
  /\ UNCHANGED <<csv, db, run, out, df, conn, locals>>

CommitMeasurements ==
  /\ pc = "commit_measurements"
  /\ db' = tx
  /\ out' = Say("measurements_inserted")
  /\ pc' = "fetch_maps"
  /\ UNCHANGED <<csv, run, df, conn, tx, locals>>

\* The two SELECTs that build the lookup maps.
FetchMaps ==
  /\ pc = "fetch_maps"
  /\ zone_id_map' = ZoneIdMap(tx.Zones)
  /\ measurement_id_map' = MeasurementIdMap(tx.Measurements)
  /\ pc' = "outdoor"
  /\ UNCHANGED <<csv, db, run, out, df, conn, tx, zone_names, outdoor_data,
                 zone_reading_data, cursor_pos>>

\* df[outdoor_cols] raises KeyError when a column is missing: the second
\* except clause prints and the run goes to finally.
BuildOutdoor ==
  /\ pc = "outdoor"
  /\ IF Range(outdoor_cols) \subseteq df.columns
     THEN /\ outdoor_data' = OutdoorData(df)
          /\ pc' = "exec_outdoor"
          /\ out' = out
     ELSE /\ outdoor_data' = outdoor_data
          /\ pc' = "finally"
          /\ out' = Say("unexpected_error")
  /\ cursor_pos' = 0
  /\ UNCHANGED <<csv, db, run, df, conn, tx, zone_names, zone_id_map,
                 measurement_id_map, zone_reading_data>>

\* An insert that skips a row the table already holds.
ExecOutdoorIfAbsent ==
  /\ pc = "exec_outdoor"
  /\ IF cursor_pos < Len(outdoor_data)
     THEN /\ tx' = [tx EXCEPT !.HourlyOutdoorReadings =
                      IF BindOutdoorRow(outdoor_data[cursor_pos + 1]) \in Range(@)
                      THEN @
                      ELSE Append(@, BindOutdoorRow(outdoor_data[cursor_pos + 1]))]
          /\ cursor_pos' = cursor_pos + 1
          /\ pc' = pc
     ELSE /\ tx' = tx
          /\ cursor_pos' = cursor_pos
          /\ pc' = "commit_outdoor"
  /\ UNCHANGED <<csv, db, run, out, df, conn, zone_names, zone_id_map,
                 measurement_id_map, outdoor_data, zone_reading_data>>

\* cursor.executemany(outdoor_insert_sql, outdoor_data), one row a step.
ExecOutdoor ==
  /\ pc = "exec_outdoor"
  /\ IF cursor_pos < Len(outdoor_data)
     THEN /\ tx' = [tx EXCEPT !.HourlyOutdoorReadings =
                      Append(@, BindOutdoorRow(outdoor_data[cursor_pos + 1]))]
          /\ cursor_pos' = cursor_pos + 1
          /\ pc' = pc
     ELSE /\ tx' = tx
          /\ cursor_pos' = cursor_pos
          /\ pc' = "commit_outdoor"
  /\ UNCHANGED <<csv, db, run, out, df, conn, zone_names, zone_id_map,
                 measurement_id_map, outdoor_data, zone_reading_data>>

CommitOutdoor ==
  /\ pc = "commit_outdoor"
  /\ db' = tx
  /\ out' = Say("outdoor_inserted")
  /\ pc' = "unpivot"
  /\ UNCHANGED <<csv, run, df, conn, tx, locals>>

\* An unpivot that hands its rows on after the first source row.
UnpivotFirstRowOnly ==
  /\ pc = "unpivot"
  /\ zone_reading_data' =
       IF df.rows = <<>> THEN <<>>
       ELSE ZoneLoop(df, df.rows[1], zone_names, zone_id_map, measurement_id_map)
  /\ cursor_pos' = 0
  /\ pc' = "exec_zone"
  /\ UNCHANGED <<csv, db, run, out, df, conn, tx, zone_names, zone_id_map,
                 measurement_id_map, outdoor_data>>

\* The unpivot loop: builds the whole batch in memory.
Unpivot ==
  /\ pc = "unpivot"
  /\ zone_reading_data' =
       ZoneReadingData(df, zone_names, zone_id_map, measurement_id_map)
  /\ cursor_pos' = 0
  /\ pc' = "exec_zone"
  /\ UNCHANGED <<csv, db, run, out, df, conn, tx, zone_names, zone_id_map,
                 measurement_id_map, outdoor_data>>

\* cursor.executemany(zone_readings_insert_sql, zone_reading_data), one row
\* a step.
ExecZone ==
  /\ pc = "exec_zone"
  /\ IF cursor_pos < Len(zone_reading_data)
     THEN /\ tx' = [tx EXCEPT !.HourlyZoneReadings =
                      Append(@, BindZoneRow(zone_reading_data[cursor_pos + 1]))]
          /\ cursor_pos' = cursor_pos + 1
          /\ pc' = pc
     ELSE /\ tx' = tx
          /\ cursor_pos' = cursor_pos
          /\ pc' = "commit_zone"
  /\ UNCHANGED <<csv, db, run, out, df, conn, zone_names, zone_id_map,
                 measurement_id_map, outdoor_data, zone_reading_data>>

CommitZoneReadings ==
  /\ pc = "commit_zone"
  /\ db' = tx
  /\ out' = Say("zone_readings_inserted")
  /\ pc' = "finally"
  /\ UNCHANGED <<csv, run, df, conn, tx, locals>>

\* The position after the phase that position p belongs to.
AfterPhase(p) ==
  CASE p \in {"connect", "zones", "commit_zones"} -> "measurements"
    [] p \in {"measurements", "commit_measurements"} -> "fetch_maps"
    [] p = "fetch_maps" -> "outdoor"
    [] p \in {"exec_outdoor", "commit_outdoor"} -> "unpivot"
    [] OTHER -> "finally"

\* A handler that reports the error and goes on with the next phase.
DbErrorSkipsPhase ==
  /\ pc \in DbPositions
  /\ out' = Say("database_error")
  /\ pc' = AfterPhase(pc)
  /\ cursor_pos' = 0
  /\ UNCHANGED <<csv, db, run, df, conn, tx, zone_names, zone_id_map,
                 measurement_id_map, outdoor_data, zone_reading_data>>

\* A statement raises sqlite3.Error (the file is locked, the disk is full,
\* a table is missing, a constraint is violated): except prints, then
\* finally.
DbError ==
  /\ pc \in DbPositions
  /\ out' = Say("database_error")
  /\ pc' = "finally"
  /\ UNCHANGED <<csv, db, run, df, conn, tx, locals>>

\* A close that commits what is pending.
CloseCommitting ==
  /\ pc = "finally"
  /\ IF conn = "open"
     THEN /\ conn' = "closed"
          /\ db' = tx
          /\ out' = Say("connection_closed")
     ELSE UNCHANGED <<conn, db, out>>
  /\ pc' = "done"
  /\ UNCHANGED <<csv, run, df, tx, locals>>

\* finally: if conn: conn.close().  Closing discards the uncommitted
\* inserts.
Close ==
  /\ pc = "finally"
  /\ IF conn = "open"
     THEN /\ conn' = "closed"
          /\ tx' = db
          /\ out' = Say("connection_closed")
     ELSE UNCHANGED <<conn, tx, out>>
  /\ pc' = "done"
  /\ UNCHANGED <<csv, db, run, df, locals>>

\* The script is started again, on the same file and the same database.
Rerun ==
  /\ pc \in {"done", "exited"}
  /\ run < MaxRuns
  /\ run' = run + 1
  /\ pc' = "load"
  /\ out' = Append(out, <<>>)
  /\ df' = NoFrame
  /\ conn' = "none"
  /\ tx' = db
  /\ zone_names' = <<>>
  /\ zone_id_map' = NoMap
  /\ measurement_id_map' = <<>>
  /\ outdoor_data' = <<>>
  /\ zone_reading_data' = <<>>
  /\ cursor_pos' = 0
  /\ UNCHANGED <<csv, db>>

Next ==
  \/ LoadCsv
  \/ Connect
  \/ PopulateZones
  \/ CommitZones
  \/ PopulateMeasurements
  \/ CommitMeasurements
  \/ FetchMaps
  \/ BuildOutdoor
  \/ ExecOutdoor
  \/ CommitOutdoor
  \/ Unpivot
  \/ ExecZone
  \/ CommitZoneReadings
  \/ DbError
  \/ Close
  \/ Rerun

Spec == Init /\ [][Next]_vars

\* ------------------------------------------------- notions of the claims
Errors == {"database_error", "unexpected_error"}

\* Run r printed its last line: every phase ran and committed.
RunComplete(r) == "zone_readings_inserted" \in Range(out[r])

\* The running (or last) run went through an except clause.
RunFailed == \E k \in 1..Len(out[run]) : out[run][k] \in Errors

AfterOneCompleteRun == run = 1 /\ pc = "done" /\ RunComplete(1)

\* What a table holds for a number of the file: the same float, or NULL for
\* a cell that is empty in the file (read as NaN).
Stored(cell) == IF cell.type = "nan" THEN None ELSE cell

Count(s, x) == Cardinality({k \in 1..Len(s) : s[k] = x})

RECURSIVE Repeat(_, _)
Repeat(s, k) == IF k = 0 THEN <<>> ELSE s \o Repeat(s, k - 1)

\* No name is twice in the table: its rows have as many names as rows.
UniqueZoneNames(table) ==
  Cardinality({table[i].ZoneName : i \in 1..Len(table)}) = Len(table)

UniqueMeasurementNames(table) ==
  Cardinality({table[i].MeasurementName : i \in 1..Len(table)}) = Len(table)

\* An earlier run committed both reference tables.
RefsLoadedBefore ==
  \E r \in 1..(run - 1) : "measurements_inserted" \in Range(out[r])

\* The measurement names of the catalog that are not global.
ZoneMeasurements ==
  {measurements_to_insert[k].name : k \in 1..Len(measurements_to_insert)}
    \ GlobalMeasurements

\* ------------------------------------------------------------------- C1
\* C1: reference resolution is idempotent.  No name is ever twice in Zones
\* or Measurements, and once a run has committed both reference tables, no
\* step of a later run on the same file adds, removes or changes a row of
\* either table, committed or pending.
C1_ReferenceUpsertIdempotent ==
  /\ [](/\ UniqueZoneNames(tx.Zones) /\ UniqueZoneNames(db.Zones)
        /\ UniqueMeasurementNames(tx.Measurements)
        /\ UniqueMeasurementNames(db.Measurements))
  /\ [][RefsLoadedBefore =>
          /\ tx'.Zones = tx.Zones /\ tx'.Measurements = tx.Measurements
          /\ db'.Zones = db.Zones /\ db'.Measurements = db.Measurements]_vars

\* The second run has executed and committed both upserts, over a database
\* that started with a row of each table, and the tables are as before.
C1_Witness ==
  /\ run = 2 /\ pc = "fetch_maps" /\ RefsLoadedBefore
  /\ Len(db.Zones) = 2
  /\ db.Zones[1] = [ZoneID |-> 3, ZoneName |-> "Z1"]
  /\ db.Measurements[1].Unit = "F"
  /\ Len(db.Measurements) = Len(measurements_to_insert)

\* ------------------------------------------------------------------- C2
\* The zone prefixes a file's columns can carry, as segment sequences
\* ("Z3_A" is <<"Z3","A">>).
ZonePrefixes == { <<"Z1">>, <<"Z2">>, <<"Z3">>, <<"Z3", "A">> }

\* The keys of the Zones rows named by the prefix (none for a prefix that
\* is no ZoneName of the table).
ZoneKeys(table, prefix) ==
  {table[i].ZoneID : i \in {j \in 1..Len(table) :
                             Len(prefix) = 1 /\ table[j].ZoneName = prefix[1]}}

MeasurementKeys(table, name) ==
  {table[i].MeasurementID : i \in {j \in 1..Len(table) :
                                     table[j].MeasurementName = name}}

\* The canonical timestamp of row i of the file.
CanonicalTimestamp(i) == Strftime(ToDatetime(csv.rows[i][TimestampCol]))

\* C2: sparse unpivot correctness, for every zone prefix.  After one
\* complete run, for every zone prefix Z and non-global measurement M: if
\* the file has the column Z_M, then for every row of the file
\* HourlyZoneReadings holds its reading (timestamp, key of Z, key of M,
\* value with NaN as NULL), as many times as the file has rows with that
\* timestamp and value; if the file has no such column, no row of the table
\* carries the keys of Z and M.
C2_SparseUnpivotEveryZone ==
  AfterOneCompleteRun =>
    \A Z \in ZonePrefixes, M \in ZoneMeasurements :
      LET col == Z \o M
          zkeys == ZoneKeys(db.Zones, Z)
          mkeys == MeasurementKeys(db.Measurements, M)
          Reading(i, zk, mk) ==
            <<CanonicalTimestamp(i), zk, mk,
              Stored(csv.rows[i][col])>>
      IN IF col \in csv.columns
         THEN \A i \in 1..Len(csv.rows) : \E zk \in zkeys, mk \in mkeys :
                Count(db.HourlyZoneReadings, Reading(i, zk, mk))
                  = Cardinality({j \in 1..Len(csv.rows) :
                                   Reading(j, zk, mk) = Reading(i, zk, mk)})
         ELSE \A k \in 1..Len(db.HourlyZoneReadings) :
                ~ /\ db.HourlyZoneReadings[k][2] \in zkeys
                  /\ db.HourlyZoneReadings[k][3] \in mkeys

\* ------------------------------------------------------------------- C3
\* C3 as stated: after one complete run, HourlyOutdoorReadings has one row
\* per row of the file, and its eleven values are those of the file's row,
\* in the order of outdoor_cols, the Timestamp as the file writes it.
C3_OutdoorEqualsFile ==
  AfterOneCompleteRun =>
    /\ Len(db.HourlyOutdoorReadings) = Len(csv.rows)
    /\ \A i \in 1..Len(csv.rows) :
         /\ db.HourlyOutdoorReadings[i][1] = csv.rows[i][TimestampCol]
         /\ \A j \in 2..Len(outdoor_cols) :
              db.HourlyOutdoorReadings[i][j] = Stored(csv.rows[i][outdoor_cols[j]])

\* C3, amended: after one complete run, HourlyOutdoorReadings has one row
\* per row of the file, in the file's order; its Timestamp is the file's
\* timestamp rewritten in the canonical format, and each of its ten numbers
\* is the file's value of the column of that place (NULL for an empty cell).
C3_OutdoorCompleteness ==
  AfterOneCompleteRun =>
    /\ Len(db.HourlyOutdoorReadings) = Len(csv.rows)
    /\ \A i \in 1..Len(csv.rows) :
         /\ db.HourlyOutdoorReadings[i][1] = CanonicalTimestamp(i)
         /\ \A j \in 2..Len(outdoor_cols) :
              db.HourlyOutdoorReadings[i][j] = Stored(csv.rows[i][outdoor_cols[j]])

\* One complete run over a file of two rows with "T" timestamps, the
\* second row with an empty Rain cell.
C3_Witness ==
  /\ AfterOneCompleteRun
  /\ Len(csv.rows) = 2
  /\ csv.rows[1][TimestampCol] = "2024-01-01T00:00:00"
  /\ csv.rows[1][<<"Cooling">>] = Float(2)
  /\ csv.rows[2][<<"Rain">>] = NaN
  /\ Len(db.HourlyOutdoorReadings) = 2

\* ------------------------------------------------------------------- C4
ZoneKeySet(table) == {table[i].ZoneID : i \in 1..Len(table)}

MeasurementKeySet(table) == {table[i].MeasurementID : i \in 1..Len(table)}

\* C4: referential integrity of zone readings.  Every row of
\* HourlyZoneReadings, committed or pending, carries the key of a Zones row
\* and the key of a Measurements row; every row of the batch carries a key
\* taken from the zone lookup map, so no row stands for a zone the map
\* lacks.
C4_ReferentialIntegrity ==
  /\ \A k \in 1..Len(db.HourlyZoneReadings) :
       /\ db.HourlyZoneReadings[k][2] \in ZoneKeySet(db.Zones)
       /\ db.HourlyZoneReadings[k][3] \in MeasurementKeySet(db.Measurements)
  /\ \A k \in 1..Len(tx.HourlyZoneReadings) :
       /\ tx.HourlyZoneReadings[k][2] \in ZoneKeySet(tx.Zones)
       /\ tx.HourlyZoneReadings[k][3] \in MeasurementKeySet(tx.Measurements)
  /\ \A k \in 1..Len(zone_reading_data) :
       \E n \in DOMAIN zone_id_map :
         /\ n \in Range(zone_names)
         /\ zone_reading_data[k][2] = zone_id_map[n]

\* Readings of two zones are committed, over a database whose Zones table
\* started with Z1 under key 3.
C4_Witness ==
  /\ pc = "done"
  /\ Len(db.HourlyZoneReadings) >= 3
  /\ \E k \in 1..Len(db.HourlyZoneReadings) : db.HourlyZoneReadings[k][2] = 3
  /\ \E k \in 1..Len(db.HourlyZoneReadings) : db.HourlyZoneReadings[k][2] = 4

\* ------------------------------------------------------------------- C5
\* The positions at which the unpivot loop has ended in this run.
BatchBuilt == pc \in {"exec_zone", "commit_zone"}

\* C5: null normalization.  No row of the batch carries a NaN; and when
\* the unpivot has ended, for every row of the DataFrame, zone of
\* zone_names and non-global measurement whose column exists, the batch
\* holds the row (timestamp, zone key, measurement key, v), where v is the
\* explicit null if the cell is NaN and the cell's own number otherwise (zero
\* included), exactly as many times as the DataFrame has rows with that
\* timestamp and that cell.
C5_NullNormalization ==
  /\ \A k \in 1..Len(zone_reading_data) : zone_reading_data[k][4].type # "nan"
  /\ BatchBuilt =>
       \A i \in 1..Len(df.rows), n \in Range(zone_names),
          m \in Range(measurement_id_map) :
         LET col == <<n>> \o m.name
             Emitted(r) ==
               <<df.rows[r][TimestampCol], zone_id_map[n], m.id,
                 Stored(df.rows[r][col])>>
         IN (m.name \notin GlobalMeasurements /\ col \in df.columns) =>
              Count(zone_reading_data, Emitted(i))
                = Cardinality({r \in 1..Len(df.rows) : Emitted(r) = Emitted(i)})

\* The batch holds a null made from a NaN cell and a zero kept as zero.
C5_Witness ==
  /\ BatchBuilt
  /\ Z1_temp \in df.columns
  /\ \E i \in 1..Len(df.rows) : df.rows[i][Z1_temp] = NaN
  /\ Z1_CO2 \in df.columns
  /\ \E i \in 1..Len(df.rows) : df.rows[i][Z1_CO2] = Float(0)
  /\ \E k \in 1..Len(zone_reading_data) : zone_reading_data[k][4] = None
  /\ \E k \in 1..Len(zone_reading_data) : zone_reading_data[k][4] = Float(0)

\* ------------------------------------------------------------------- C6
\* C6: a failed load ends the process before the database is touched.  The
\* step of a load that raises goes to exit, and neither it nor anything
\* after it in that process opens the connection or changes a table,
\* committed or pending.
C6_LoadErrorBeforeMutation ==
  [][((pc = "load" /\ LoadRaises(csv)) \/ pc = "exited") =>
       /\ pc' \in {"exited", "load"}
       /\ conn' = "none"
       /\ db' = db
       /\ tx' = tx]_vars

\* The process has exited on a timestamp that does not parse, with rows in
\* the reference tables that were there before.
C6_Witness ==
  /\ pc = "exited"
  /\ csv.status = "ok"
  /\ Len(csv.rows) = 2
  /\ out[run] = <<"csv_error">>
  /\ conn = "none"
  /\ db.Zones # <<>>

\* ------------------------------------------------------------------- C7
\* The step prints an error of the database try block.
ErrorStep ==
  /\ run' = run
  /\ Len(out'[run]) = Len(out[run]) + 1
  /\ out'[run][Len(out'[run])] \in Errors

\* C7: a storage failure aborts the rest of the run and keeps what is
\* committed.  The failing step goes to finally and changes no table; from
\* there the run only closes the connection, which changes no committed
\* table; and when the run is over, the table of every phase that printed
\* its commit before the failure holds that phase's rows.
C7_FailureKeepsCommits ==
  /\ [][ErrorStep => (pc' = "finally" /\ db' = db /\ tx' = tx)]_vars
  /\ [][(pc = "finally" /\ RunFailed) => (pc' = "done" /\ db' = db)]_vars
  /\ [](pc = "done" /\ RunFailed =>
          /\ "zones_inserted" \in Range(out[run]) =>
               \A n \in Range(zone_names) : ZoneNameConflict(db.Zones, n)
          /\ "measurements_inserted" \in Range(out[run]) =>
               \A k \in 1..Len(measurements_to_insert) :
                 MeasurementNameConflict(db.Measurements,
                                         measurements_to_insert[k].name)
          /\ "outdoor_inserted" \in Range(out[run]) =>
               /\ Len(db.HourlyOutdoorReadings) >= Len(outdoor_data)
               /\ \A i \in 1..Len(outdoor_data) :
                    db.HourlyOutdoorReadings[Len(db.HourlyOutdoorReadings)
                                             - Len(outdoor_data) + i]
                      = BindOutdoorRow(outdoor_data[i]))

\* A run failed in the middle of the zone readings' executemany: the three
\* earlier phases are committed, the zone readings are not.
C7_Witness ==
  /\ pc = "done" /\ RunFailed
  /\ "outdoor_inserted" \in Range(out[run])
  /\ cursor_pos > 0 /\ cursor_pos < Len(zone_reading_data)
  /\ Len(db.HourlyOutdoorReadings) = 2
  /\ db.Zones # <<>>
  /\ db.HourlyZoneReadings = <<>>

\* ------------------------------------------------------------------- C8
\* The batches a run of the script on this file inserts, as stored.
OutdoorBatch ==
  IF LoadRaises(csv) \/ ~ (Range(outdoor_cols) \subseteq csv.columns) THEN <<>>
  ELSE LET data == OutdoorData(LoadFrame(csv))
       IN [i \in 1..Len(data) |-> BindOutdoorRow(data[i])]

ZoneBatch ==
  IF LoadRaises(csv) THEN <<>>
  ELSE LET data == ZoneReadingData(LoadFrame(csv), ZoneNames(LoadFrame(csv)),
                                   ZoneIdMap(db.Zones),
                                   MeasurementIdMap(db.Measurements))
       IN [i \in 1..Len(data) |-> BindZoneRow(data[i])]

\* C8: per-table batch atomicity.  In every state the committed contents
\* of each fact table are whole batches only: as many copies of the run's
\* batch as runs have committed it, never a part of a batch, whether the
\* executemany failed partway or the connection was closed in finally.
C8_BatchAtomicity ==
  /\ \E k \in 0..run : db.HourlyOutdoorReadings = Repeat(OutdoorBatch, k)
  /\ \E k \in 0..run : db.HourlyZoneReadings = Repeat(ZoneBatch, k)

\* An executemany failed after its first row and the connection is closed:
\* the committed table has none of the batch.
C8_Witness ==
  /\ pc = "done" /\ RunFailed /\ run = 1
  /\ "outdoor_inserted" \notin Range(out[run])
  /\ "measurements_inserted" \in Range(out[run])
  /\ cursor_pos = 1 /\ Len(outdoor_data) = 2
  /\ conn = "closed"
  /\ db.HourlyOutdoorReadings = <<>>

\* ------------------------------------------------------------------- C9
AllRunsComplete == \A r \in 1..run : RunComplete(r)

\* C9: rerun behaviour.  After k complete runs on the same file each fact
\* table holds exactly k copies of the rows of one run, in k batches; and
\* no step of a run that follows complete runs changes Zones or
\* Measurements.
C9_RerunDuplicatesFacts ==
  /\ []((pc = "done" /\ AllRunsComplete) =>
          /\ db.HourlyOutdoorReadings
               = Repeat([i \in 1..Len(outdoor_data) |->
                           BindOutdoorRow(outdoor_data[i])], run)
          /\ db.HourlyZoneReadings
               = Repeat([i \in 1..Len(zone_reading_data) |->
                           BindZoneRow(zone_reading_data[i])], run)
          /\ Len(db.HourlyOutdoorReadings) = run * Len(csv.rows))
  /\ [][(run >= 2 /\ \A r \in 1..(run - 1) : RunComplete(r)) =>
          (db'.Zones = db.Zones /\ db'.Measurements = db.Measurements)]_vars

\* Two complete runs over a file of two rows and two zone columns.
C9_Witness ==
  /\ pc = "done" /\ run = 2 /\ AllRunsComplete
  /\ Len(csv.rows) = 2
  /\ Len(db.HourlyOutdoorReadings) = 4
  /\ Len(db.HourlyZoneReadings) = 8

\* ------------------------------------------------------------------ C10
\* This run has executed an insert into, or a commit of, a fact table.
FactStatementExecuted ==
  \/ Len(tx.HourlyOutdoorReadings) > Len(db.HourlyOutdoorReadings)
  \/ Len(tx.HourlyZoneReadings) > Len(db.HourlyZoneReadings)
  \/ "outdoor_inserted" \in Range(out[run])

\* C10 as stated: no fact-table insert or commit is executed before both
\* the outdoor transformation and the zone unpivot have produced their
\* batches.
C10_BothBatchesBeforeAnyInsert ==
  (FactStatementExecuted /\ pc \notin {"finally", "done"}) =>
    pc \in {"exec_zone", "commit_zone"}

\* C10, amended: the phases run in the order load, resolve references,
\* transform outdoor, load outdoor, transform zones, load zones, each
\* complete before the next begins.  At every position of the database try
\* block the outputs of the earlier phases are complete: the DataFrame is
\* loaded; past the zone commit every derived zone is committed; past the
\* measurement commit the whole catalog is committed; an outdoor insert
\* finds the lookup maps and the whole outdoor batch built; the unpivot
\* starts only when the outdoor batch is committed; and a zone-reading
\* insert finds the whole zone batch built.
C10_PhaseOrder ==
  LET AtOrAfter(ps) == pc \in ps
      zonePhase == {"exec_zone", "commit_zone"}
      unpivotOn == {"unpivot"} \cup zonePhase
      outdoorOn == {"exec_outdoor", "commit_outdoor"} \cup unpivotOn
      mapsOn == {"outdoor"} \cup outdoorOn
      measurementsDone == {"fetch_maps"} \cup mapsOn
      zonesDone == {"measurements", "commit_measurements"} \cup measurementsDone
      connected == {"connect", "zones", "commit_zones"} \cup zonesDone
  IN /\ AtOrAfter(connected) => df = LoadFrame(csv)
     /\ AtOrAfter(zonesDone) =>
          /\ zone_names = ZoneNames(df)
          /\ \A n \in Range(zone_names) : ZoneNameConflict(db.Zones, n)
     /\ AtOrAfter(measurementsDone) =>
          \A k \in 1..Len(measurements_to_insert) :
            MeasurementNameConflict(db.Measurements, measurements_to_insert[k].name)
     /\ AtOrAfter(mapsOn) =>
          /\ zone_id_map = ZoneIdMap(db.Zones)
          /\ measurement_id_map = MeasurementIdMap(db.Measurements)
     /\ AtOrAfter(outdoorOn) => outdoor_data = OutdoorData(df)
     /\ AtOrAfter(unpivotOn) =>
          /\ "outdoor_inserted" \in Range(out[run])
          /\ tx.HourlyOutdoorReadings = db.HourlyOutdoorReadings
     /\ AtOrAfter(zonePhase) =>
          zone_reading_data =
            ZoneReadingData(df, zone_names, zone_id_map, measurement_id_map)
     /\ (Len(tx.HourlyOutdoorReadings) > Len(db.HourlyOutdoorReadings)) =>
          pc \in {"exec_outdoor", "commit_outdoor", "finally"}
     /\ (Len(tx.HourlyZoneReadings) > Len(db.HourlyZoneReadings)) =>
          pc \in {"exec_zone", "commit_zone", "finally"}

\* The second zone reading is being inserted: the outdoor batch of two
\* rows is committed and the zone batch of four rows is built.
C10_Witness ==
  /\ pc = "exec_zone" /\ cursor_pos = 1
  /\ Len(df.rows) = 2
  /\ Len(zone_reading_data) = 4
  /\ Len(db.HourlyOutdoorReadings) = 2

=============================================================================
